---- MODULE Spec2Model ----
(***************************************************************************)
(* Model of main.py: the movie poster bot and its time-windowed cache.     *)
(*                                                                         *)
(* A date is the proleptic Gregorian ordinal that datetime uses            *)
(* (date.toordinal(): 0001-01-01 is day 1).  A window key is the pair of   *)
(* numbers that strftime prints: "%Y-%m" is <<year, month>> and "%Y-%U"    *)
(* is <<year, week>>.  Month keys and week keys live in different places   *)
(* of the document, so the two kinds of pairs never meet.                  *)
(*                                                                         *)
(* An identifier string is the sequence of its decimal digits.  A JSON     *)
(* array is a sequence.                                                    *)
(***************************************************************************)
EXTENDS Integers, Sequences, FiniteSets, TLC

VARIABLES
    day,        \* the wall clock: what datetime.utcnow() returns, as a date
    file,       \* posted_cache.json on disk
    pc,         \* position of the running process inside main()
    week_ids,   \* main(): local week_ids
    month_ids,  \* main(): local month_ids
    movies,     \* main(): local movies (after the shuffle)
    movie,      \* main(): local movie (None or the chosen candidate)
    fb_id,      \* main(): local fb_id (None until post_to_facebook returns)
    cache,      \* save_posted(): local cache, the document being written
    page,       \* the Facebook page: per movie, the date of its latest post
    status,     \* how the last finished run ended
    loadNow,    \* load_posted(): local now of the running / last run
    arg,        \* inputs of load/save/choose when applied as functions
    ret         \* its result

vars == <<day, file, pc, week_ids, month_ids, movies, movie, fb_id, cache,
          page, status, loadNow, arg, ret>>

(***************************************************************************)
(* Bounds                                                                  *)
(***************************************************************************)
NumMovies == 2          \* TMDB identifiers are 1..NumMovies
MaxDays == 15           \* the clock runs over FirstDay .. FirstDay + MaxDays
MaxRunDays == 1         \* midnights that can pass while one run is under way
MaxPriorKeys == 3       \* week keys of an arbitrary prior document

None == <<>>

Range(s) == {s[i] : i \in DOMAIN s}

(***************************************************************************)
(* datetime: ordinals, strftime fields, timedelta                          *)
(***************************************************************************)
IsLeap(y) == (y % 4 = 0) /\ ((y % 100 # 0) \/ (y % 400 = 0))

DaysBeforeYear(y) ==
    LET p == y - 1 IN p * 365 + (p \div 4) - (p \div 100) + (p \div 400)

DaysInMonth(y, m) ==
    IF m = 2 THEN (IF IsLeap(y) THEN 29 ELSE 28)
    ELSE IF m \in {4, 6, 9, 11} THEN 30 ELSE 31

RECURSIVE DaysBeforeMonth(_, _)
DaysBeforeMonth(y, m) ==
    IF m = 1 THEN 0 ELSE DaysBeforeMonth(y, m - 1) + DaysInMonth(y, m - 1)

\* date(y, m, d).toordinal()
Ordinal(y, m, d) == DaysBeforeYear(y) + DaysBeforeMonth(y, m) + d

\* datetime._ord2ymd: the year of an ordinal
YearOf(n) ==
    LET n0   == n - 1
        n400 == n0 \div 146097
        r400 == n0 % 146097
        n100 == r400 \div 36524
        r100 == r400 % 36524
        n4   == r100 \div 1461
        r4   == r100 % 1461
        n1   == r4 \div 365
        y    == n400 * 400 + 1 + n100 * 100 + n4 * 4 + n1
    IN  IF n1 = 4 \/ n100 = 4 THEN y - 1 ELSE y

\* tm_yday - 1: days since January 1st of the same year
YDay(n) == n - DaysBeforeYear(YearOf(n)) - 1

MonthOf(n) ==
    LET y == YearOf(n)
    IN  CHOOSE m \in 1..12 :
            /\ DaysBeforeMonth(y, m) <= YDay(n)
            /\ YDay(n) < DaysBeforeMonth(y, m) + DaysInMonth(y, m)

\* day of the week with Sunday = 0 (0001-01-01 is a Monday)
WDaySun(n) == n % 7

\* strftime("%U"): week of the year, weeks start on Sunday, the days before
\* the first Sunday are week 0
WeekOfYear(n) == (YDay(n) + 7 - WDaySun(n)) \div 7

\* now.strftime("%Y-%m")
monthKey(now) == <<YearOf(now), MonthOf(now)>>

\* now.strftime("%Y-%U")
weekKey(now) == <<YearOf(now), WeekOfYear(now)>>

\* [(now - timedelta(days=7 * i)).strftime("%Y-%U") for i in range(1, 3)]
last_weeks(now) == [i \in 1..2 |-> weekKey(now - 7 * i)]

FirstDay == Ordinal(2024, 12, 21)
LastDay == FirstDay + MaxDays
Days == FirstDay..LastDay


(***************************************************************************)
(* Identifiers, JSON arrays, the cache file                                *)
(***************************************************************************)
MovieIds == 1..NumMovies

\* str(m["id"]): the decimal digits of the number
RECURSIVE Str(_)
Str(n) == IF n < 10 THEN <<n>> ELSE Str(n \div 10) \o <<n % 10>>

StrIds == {Str(n) : n \in MovieIds}

\* set(a_list)
SetOf(list) == Range(list)

\* list(a_set): the elements once each.  The order Python gives them is
\* never observed: every array of the document is read back through set().
ListOf(S) == CHOOSE s \in [1..Cardinality(S) -> S] : Range(s) = S

EmptyMap == [k \in {} |-> <<>>]

\* os.path.exists(CACHE_FILE) is false
Missing == [kind |-> "missing", month |-> [key |-> None, ids |-> <<>>],
            week |-> EmptyMap]

\* the file exists and holds a strict prefix of a JSON text (open(.., "w")
\* has truncated it, json.dump has not completed): json.load raises
Partial == [kind |-> "partial", month |-> [key |-> None, ids |-> <<>>],
            week |-> EmptyMap]

\* a_dict.get(k, [])
Get(d, k) == IF k \in DOMAIN d THEN d[k] ELSE <<>>

(***************************************************************************)
(* load_posted, save_posted, choose_movie as functions of what they read   *)
(***************************************************************************)
\* load_posted(): the pair it returns when it returns
load_posted(f, now) ==
    IF f.kind = "missing"
    THEN [week_ids |-> {}, month_ids |-> {}]
    ELSE [month_ids |-> IF f.month.key = monthKey(now)
                        THEN SetOf(f.month.ids) ELSE {},
          week_ids  |-> UNION {SetOf(Get(f.week, wk_key)) :
                          wk_key \in {weekKey(now)} \cup Range(last_weeks(now))}]

\* load_posted() raises (json.load, JSONDecodeError)
load_raises(f) == f.kind = "partial"

\* new_week_data as it would be if the current week were carried over from
\* the old document like the trailing ones, week_ids never stored
new_week_data_stale(old_week_data, now, W) ==
    [wk \in Range(last_weeks(now)) \cup {weekKey(now)} |->
        Get(old_week_data, wk)]

\* new_week_data as it would be if the current week were set in the old
\* mapping, nothing pruned
new_week_data_keepall(old_week_data, now, W) ==
    [wk \in DOMAIN old_week_data \cup {weekKey(now)} |->
        IF wk = weekKey(now) THEN ListOf(W) ELSE old_week_data[wk]]

\* save_posted(): new_week_data
new_week_data(old_week_data, now, W) ==
    [wk \in Range(last_weeks(now)) \cup {weekKey(now)} |->
        IF wk = weekKey(now) THEN ListOf(W) ELSE Get(old_week_data, wk)]

\* save_posted(): the document it hands to json.dump
save_posted(f, now, W, M) ==
    LET old == IF f.kind = "missing" THEN EmptyMap ELSE f.week
    IN  [kind  |-> "doc",
         month |-> [key |-> monthKey(now), ids |-> ListOf(M)],
         week  |-> new_week_data(old, now, W)]

\* the loop as it would be with "or" for "and" in the test
RECURSIVE choose_from_or(_, _, _, _)
choose_from_or(ms, i, W, M) ==
    IF i > Len(ms) THEN None
    ELSE LET mid == Str(ms[i].id)
         IN  IF mid \notin W \/ mid \notin M THEN ms[i]
             ELSE choose_from_or(ms, i + 1, W, M)

\* choose_movie(): the loop from position i on
RECURSIVE choose_from(_, _, _, _)
choose_from(ms, i, W, M) ==
    IF i > Len(ms) THEN None
    ELSE LET mid == Str(ms[i].id)
         IN  IF mid \notin W /\ mid \notin M THEN ms[i]
             ELSE choose_from(ms, i + 1, W, M)

choose_movie(ms, W, M) == choose_from(ms, 1, W, M)

(***************************************************************************)
(* The bot: one process at a time, started again and again by a scheduler  *)
(***************************************************************************)
\* what TMDB's trending list can be after random.shuffle: any order of any
\* of the movies
Trending ==
    UNION {{s \in [1..n -> [id : MovieIds]] :
               \A i, j \in 1..n : i # j => s[i] # s[j]} : n \in 0..NumMovies}

Init ==
    /\ day = FirstDay
    /\ file = Missing
    /\ pc = "idle"
    /\ week_ids = {}
    /\ month_ids = {}
    /\ movies = <<>>
    /\ movie = None
    /\ fb_id = None
    /\ cache = None
    /\ page = [m \in MovieIds |-> 0]
    /\ status = "none"
    /\ loadNow = 0
    /\ arg = None
    /\ ret = None

\* the process ends (return from main, or an exception nobody catches)
EndRun(s) ==
    /\ pc' = "idle"
    /\ status' = s
    /\ week_ids' = {}
    /\ month_ids' = {}
    /\ movies' = <<>>
    /\ movie' = None
    /\ fb_id' = None
    /\ cache' = None
    /\ loadNow' = 0

\* Midnight passes, while no run is under way or during one.  Between the
\* return of post_to_facebook and the clock read of save_posted there are
\* three statements on local sets: the date of the post is the date
\* save_posted reads.
Tick ==
    /\ pc # "posted"
    /\ pc # "idle" => day - loadNow < MaxRunDays
    /\ day < LastDay
    /\ day' = day + 1
    /\ UNCHANGED <<file, pc, week_ids, month_ids, movies, movie, fb_id,
                   cache, page, status, loadNow, arg, ret>>

\* main: week_ids, month_ids = load_posted()
LoadPosted ==
    /\ pc = "idle"
    /\ ~load_raises(file)
    /\ loadNow' = day
    /\ week_ids' = load_posted(file, day).week_ids
    /\ month_ids' = load_posted(file, day).month_ids
    /\ pc' = "loaded"
    /\ UNCHANGED <<day, file, movies, movie, fb_id, cache, page, status,
                   arg, ret>>

\* main: load_posted() raises on a file json.load cannot parse
LoadRaise ==
    /\ pc = "idle"
    /\ load_raises(file)
    /\ EndRun("load_error")
    /\ UNCHANGED <<day, file, page, arg, ret>>

\* main: movies = trending_movies()
FetchOk ==
    /\ pc = "loaded"
    /\ \E ms \in Trending : movies' = ms
    /\ pc' = "fetched"
    /\ UNCHANGED <<day, file, week_ids, month_ids, movie, fb_id, cache,
                   page, status, loadNow, arg, ret>>

\* trending_movies: requests.get raises (timeout, connection, bad JSON)
FetchFail ==
    /\ pc = "loaded"
    /\ EndRun("fetch_error")
    /\ UNCHANGED <<day, file, page, arg, ret>>

\* main: movie = choose_movie(...); if not movie: return
ChooseMovie ==
    /\ pc = "fetched"
    /\ LET m == choose_movie(movies, week_ids, month_ids)
       IN  IF m = None
           THEN /\ EndRun("skipped")
                /\ UNCHANGED <<day, file, page, arg, ret>>
           ELSE /\ movie' = m
                /\ pc' = "chosen"
                /\ UNCHANGED <<day, file, week_ids, month_ids, movies,
                               fb_id, cache, page, status, loadNow, arg, ret>>

\* main: generate_poster(movie); generate_caption(movie)
CaptionOk ==
    /\ pc = "chosen"
    /\ pc' = "captioned"
    /\ UNCHANGED <<day, file, week_ids, month_ids, movies, movie, fb_id,
                   cache, page, status, loadNow, arg, ret>>

\* generate_caption: the text-generation call raises
CaptionFail ==
    /\ pc = "chosen"
    /\ EndRun("caption_error")
    /\ UNCHANGED <<day, file, page, arg, ret>>

\* main: fb_id = post_to_facebook(poster_url, caption), the photo is on
\* the page
PostOk ==
    /\ pc = "captioned"
    /\ page' = [page EXCEPT ![movie.id] = day]
    /\ fb_id' = <<movie.id, day>>
    /\ pc' = "posted"
    /\ UNCHANGED <<day, file, week_ids, month_ids, movies, movie, cache,
                   status, loadNow, arg, ret>>

\* PostFail as it would be if the HTTPError were printed and not raised
\* again: main goes on to mark and save
PostFail_swallowed ==
    /\ pc = "captioned"
    /\ pc' = "posted"
    /\ UNCHANGED <<day, file, week_ids, month_ids, movies, movie, fb_id,
                   cache, page, status, loadNow, arg, ret>>

\* post_to_facebook: raise_for_status (or requests.post) raises, nothing
\* is on the page
PostFail ==
    /\ pc = "captioned"
    /\ EndRun("post_error")
    /\ UNCHANGED <<day, file, page, arg, ret>>

\* main: mark as posted; save_posted up to and including open(.., "w"),
\* which truncates the file
SaveOpen ==
    /\ pc = "posted"
    /\ week_ids' = week_ids \cup {Str(movie.id)}
    /\ month_ids' = month_ids \cup {Str(movie.id)}
    /\ cache' = save_posted(file, day, week_ids', month_ids')
    /\ file' = Partial
    /\ pc' = "writing"
    /\ UNCHANGED <<day, movies, movie, fb_id, page, status, loadNow,
                   arg, ret>>

\* save_posted: json.dump completes, the file is closed; main prints
SaveWrite ==
    /\ pc = "writing"
    /\ file' = cache
    /\ EndRun("posted")
    /\ UNCHANGED <<day, page, arg, ret>>

\* save_posted: json.dump raises (disk full) or the process is killed
SaveFail ==
    /\ pc = "writing"
    /\ EndRun("save_error")
    /\ UNCHANGED <<day, file, page, arg, ret>>

Next ==
    \/ Tick
    \/ LoadPosted
    \/ LoadRaise
    \/ FetchOk
    \/ FetchFail
    \/ ChooseMovie
    \/ CaptionOk
    \/ CaptionFail
    \/ PostOk
    \/ PostFail
    \/ SaveOpen
    \/ SaveWrite
    \/ SaveFail

Spec == Init /\ [][Next]_vars


(***************************************************************************)
(* The cache store and the selector as functions: the inputs are drawn     *)
(* from bounded sets, the actions apply the function                       *)
(***************************************************************************)
\* a document some earlier version or run left behind: week entries for any
\* of the weeks now, now - 7, ..., now - 7 * MaxPriorKeys, a month entry for
\* this month or an earlier one
PriorWeeks(now) ==
    {[wk \in {weekKey(now - 7 * i) : i \in I} |-> <<s>>] :
        I \in SUBSET (0..MaxPriorKeys), s \in StrIds}

PriorDocs(now) ==
    {Missing} \cup
    [kind  : {"doc"},
     month : [key : {monthKey(now), monthKey(now - 31)},
              ids : {<<>>, ListOf(StrIds)}],
     week  : PriorWeeks(now)]

InitFn ==
    /\ week_ids = {}
    /\ month_ids = {}
    /\ movies = <<>>
    /\ movie = None
    /\ fb_id = None
    /\ cache = None
    /\ page = [m \in MovieIds |-> 0]
    /\ status = "none"
    /\ loadNow = 0
    /\ pc = "call"
    /\ ret = None

InitStore ==
    /\ InitFn
    /\ day \in Days
    /\ file \in PriorDocs(day)
    /\ \E W \in SUBSET StrIds, M \in SUBSET StrIds :
          arg = [old |-> file, W |-> W, M |-> M]

\* save_posted(W, M) at now, from the clock read to the closed file
StoreSave ==
    /\ pc = "call"
    /\ file' = save_posted(file, day, arg.W, arg.M)
    /\ pc' = "saved"
    /\ UNCHANGED <<day, week_ids, month_ids, movies, movie, fb_id, cache,
                   page, status, loadNow, arg, ret>>

\* load_posted() at the same now
StoreLoad ==
    /\ pc = "saved"
    /\ ret' = load_posted(file, day)
    /\ pc' = "returned"
    /\ UNCHANGED <<day, file, week_ids, month_ids, movies, movie, fb_id,
                   cache, page, status, loadNow, arg>>

NextStore == StoreSave \/ StoreLoad

SpecStore == InitStore /\ [][NextStore]_vars

\* any ordered list of candidates, repeats included
Candidates == UNION {[1..n -> [id : MovieIds]] : n \in 0..(NumMovies + 1)}

InitChoose ==
    /\ InitFn
    /\ day = FirstDay
    /\ file = Missing
    /\ \E ms \in Candidates, W \in SUBSET StrIds, M \in SUBSET StrIds :
          arg = [movies |-> ms, W |-> W, M |-> M]

\* choose_movie(movies, week_ids, month_ids)
ApplyChoose ==
    /\ pc = "call"
    /\ ret' = choose_movie(arg.movies, arg.W, arg.M)
    /\ pc' = "returned"
    /\ UNCHANGED <<day, file, week_ids, month_ids, movies, movie, fb_id,
                   cache, page, status, loadNow, arg>>

NextChoose == ApplyChoose

SpecChoose == InitChoose /\ [][NextChoose]_vars


(***************************************************************************)
(* Properties                                                              *)
(***************************************************************************)
\* The calendar week of a date, Sunday to Saturday, counted without regard
\* to years: two dates are in the same calendar week iff these are equal.
CalWeek(n) == (n - WDaySun(n)) \div 7

\* every identifier string a document holds
StoredIds(f) ==
    SetOf(f.month.ids) \cup UNION {SetOf(f.week[wk]) : wk \in DOMAIN f.week}

\* the movie was posted on the page at some time
Published(s) == \E m \in MovieIds : Str(m) = s /\ page[m] # 0

\* C1: a movie that main selects was not posted before in the month of the
\* run, in the calendar week of the run, or in the calendar week before it
\* (year boundaries included).
C1_NoRepostInWindow ==
    pc = "chosen" =>
        LET last == page[movie.id]
        IN  last # 0 =>
              /\ monthKey(last) # monthKey(loadNow)
              /\ CalWeek(loadNow) - CalWeek(last) \notin {0, 1}

\* C2: the file changes only in a run whose post_to_facebook has returned,
\* and so every identifier the file holds is one that was posted.
C2_CacheChangesOnlyAfterPublish ==
    [][/\ file' # file => fb_id # None
       /\ \A s \in StoredIds(file') : Published(s)']_vars

C2_Witness ==
    /\ pc = "idle"
    /\ status \in {"fetch_error", "caption_error", "post_error", "skipped"}
    /\ file.kind = "doc"
    /\ StoredIds(file) # {}

\* C3: load_posted on a missing or unparseable file returns two empty sets
\* and the run goes on.
C3_LoadFailsOpen ==
    [][(pc = "idle" /\ file.kind # "doc" /\ day' = day)
          => (pc' = "loaded" /\ week_ids' = {} /\ month_ids' = {})]_vars

\* C7: save_posted replaces the document in one step: whenever the file
\* changes, it becomes the complete new document.
C7_AtomicReplace ==
    [][file' # file => (file'.kind = "doc" /\ file' = cache)]_vars

\* C8: every date from now - 14 days to now has the current week key or one
\* of the two trailing week keys.
C8_TrailingKeysCover ==
    pc = "loaded" =>
        \A d \in (loadNow - 14)..loadNow :
            weekKey(d) \in {weekKey(loadNow)} \cup Range(last_weeks(loadNow))

\* C9: after a run of main that saves, every identifier of the persisted
\* month entry was posted in the month the entry's key names.
C9_MonthEntryOfItsMonth ==
    (pc = "idle" /\ status = "posted") =>
        \A s \in SetOf(file.month.ids) :
            \E m \in MovieIds :
                /\ Str(m) = s
                /\ page[m] # 0
                /\ monthKey(page[m]) = file.month.key

\* C10: the week set load_posted returns holds only movies whose latest post
\* is in the current calendar week or one of the two before it.
C10_WeekSetExpires ==
    pc = "loaded" =>
        \A m \in MovieIds :
            Str(m) \in week_ids =>
                /\ page[m] # 0
                /\ CalWeek(loadNow) - CalWeek(page[m]) <= 2

\* C4: choose_movie returns the first candidate whose identifier is in
\* neither set, and None exactly when there is no such candidate.
C4_ChooseFirstUnseen ==
    pc = "returned" =>
        LET ms     == arg.movies
            unseen == {i \in DOMAIN ms : Str(ms[i].id) \notin arg.W \cup arg.M}
        IN  /\ ret = None <=> unseen = {}
            /\ unseen # {} =>
                 \E i \in unseen : /\ ret = ms[i]
                                   /\ \A j \in unseen : i <= j

C4_Witness ==
    /\ pc = "returned"
    /\ Len(arg.movies) >= 3
    /\ Str(arg.movies[1].id) \in arg.M \ arg.W
    /\ arg.movies[2] = arg.movies[1]
    /\ ret = arg.movies[3]

\* the identifiers the trailing week entries of the old document hold
TrailingIds(old, now) ==
    IF old.kind = "missing" THEN {}
    ELSE UNION {SetOf(Get(old.week, wk)) : wk \in Range(last_weeks(now))}

\* C5: after save_posted(W, M) at now, load_posted at the same now returns
\* the month set M and a week set that includes W, and is W when the
\* trailing week entries hold no identifiers.
C5_SaveLoadRoundTrip ==
    pc = "returned" =>
        /\ ret.month_ids = arg.M
        /\ arg.W \subseteq ret.week_ids
        /\ TrailingIds(arg.old, day) = {} => ret.week_ids = arg.W

C5_Witness ==
    /\ pc = "returned"
    /\ arg.W # {}
    /\ arg.M # {}
    /\ arg.old.kind = "doc"
    /\ arg.old.month.key # monthKey(day)
    /\ ret.week_ids # arg.W

\* C6: after save_posted the week mapping has at most 3 keys, all of them
\* the current week key or one of the 2 trailing week keys.
C6_WeekMappingBounded ==
    pc \in {"saved", "returned"} =>
        /\ Cardinality(DOMAIN file.week) <= 3
        /\ DOMAIN file.week \subseteq
              {weekKey(day)} \cup Range(last_weeks(day))

C6_Witness ==
    /\ pc = "saved"
    /\ Cardinality(DOMAIN arg.old.week) > 3
    /\ weekKey(day - 21) \notin DOMAIN file.week

====
